---- MODULE Spec2Model ----
(***************************************************************************)
(* Car-price prediction services of SDS-CP040-modelops.                    *)
(*                                                                         *)
(* Eight FastAPI submissions serve the same pre-trained estimator.  One    *)
(* process runs one submission (variable sub).  The process imports its    *)
(* module, loads the model artifact, and then answers HTTP requests.       *)
(* Every handler is translated from its own source file.                   *)
(*                                                                         *)
(* Units: engine size in tenths of a litre; prices in 1/200 GBP, so that   *)
(* an estimator result that is a multiple of 1/8 GBP (exact in binary      *)
(* floating point) is a multiple of 25 and a 2-decimal value is even.      *)
(* Text is a sequence of one-character strings.                            *)
(***************************************************************************)
EXTENDS Integers, Sequences, FiniteSets, TLC

VARIABLES
    sub,          \* the submission this process runs
    phase,        \* "boot" | "serving" | "aborted"
    model,        \* the module-level Estimator reference: "unset" | "loaded"
    est,          \* the Estimator object the reference points to
    currentYear,  \* CURRENT_YEAR as the handlers of this process see it
    clock,        \* the calendar year the system clock reads now
    handledIn,    \* the calendar year in which the last request was handled
    loadFailed,   \* joblib.load raised at startup
    reqKind,      \* endpoint of the last request handled
    req,          \* payload of the last POST /predict
    resp,         \* response to the last request
    rows,         \* <<row>> when the last request called model.predict(row)
    call,         \* what that call did: raised, or the value it returned
    propagated    \* the last handler let an exception escape

vars == <<sub, phase, model, est, currentYear, clock, handledIn, loadFailed,
          reqKind, req, resp, rows, call, propagated>>

-----------------------------------------------------------------------------
(* Bounds of the model *)

MaxTextLen == 2        \* longest text field sent
FutureSpan == 2        \* years of manufacture up to this far after 2025
ClockSkew == 1         \* the system clock reads 2025 - ClockSkew .. 2025 + ClockSkew
MaxPredEighths == 3    \* estimator results 0/8 .. MaxPredEighths/8 GBP
MaxTicks == 1          \* new years the process lives through

(* Program constants *)

HardcodedYear == 2025
MinYear == 1980
VintageAge == 20

-----------------------------------------------------------------------------
(* Submissions and what each loads with *)

Submissions == {"Nima", "Brian", "Jackie", "Patrick",
                "GregMain", "GregApp", "Galyna", "Gaddiel"}

ImportLoaders == {"Jackie", "Patrick", "GregMain", "GregApp", "Galyna", "Gaddiel"}

Max(a, b) == IF a >= b THEN a ELSE b

-----------------------------------------------------------------------------
(* Text *)

Chars == {" ", "a"}

Texts == UNION {[1..n -> Chars] : n \in 0..MaxTextLen}

RECURSIVE lstrip(_)
lstrip(s) == IF s # <<>> /\ Head(s) = " " THEN lstrip(Tail(s)) ELSE s

RECURSIVE rstrip(_)
rstrip(s) ==
    IF s # <<>> /\ s[Len(s)] = " " THEN rstrip(SubSeq(s, 1, Len(s) - 1)) ELSE s

strip(s) == rstrip(lstrip(s))

-----------------------------------------------------------------------------
(* Request payloads *)

Fields == {"Manufacturer", "Model", "Fuel type", "Engine size",
           "Year of manufacture", "Mileage"}

\* the fields whose wire key ("Fuel type") differs from the attribute name
\* ("Fuel_type"); naming says which of the two the client sent
Aliased == {"Fuel type", "Engine size", "Year of manufacture"}

Namings == {"alias", "name"}

BasePayload ==
    [Manufacturer |-> <<"a">>, Model |-> <<"a">>, Fuel_type |-> <<"a">>,
     Engine_size |-> 18, Year_of_manufacture |-> 2019, Mileage |-> 45000,
     missing |-> {}, naming |-> "alias"]

EngineValues == {-10, 0, 18}

MileageValues == {-1, 0, 45000}

YearValues ==
    {MinYear - 1, MinYear}
    \cup {HardcodedYear - VintageAge, HardcodedYear - VintageAge + 1}
    \cup (HardcodedYear .. (HardcodedYear + FutureSpan))

PayloadVariants ==
    {BasePayload}
    \cup {[BasePayload EXCEPT !.Manufacturer = t, !.Model = t, !.Fuel_type = t] :
              t \in Texts}
    \cup {[BasePayload EXCEPT !.Engine_size = e] : e \in EngineValues}
    \cup {[BasePayload EXCEPT !.Year_of_manufacture = y] : y \in YearValues}
    \cup {[BasePayload EXCEPT !.Mileage = m] : m \in MileageValues}
    \cup {[BasePayload EXCEPT !.missing = {f}] : f \in Fields}

Payloads == {[v EXCEPT !.naming = n] : v \in PayloadVariants, n \in Namings}

-----------------------------------------------------------------------------
(* The Estimator: an opaque artifact *)

\* steps:   the artifact is a pipeline with a named step 'model'
\* missing: that step lacks attributes its get_params reads
\* wrapped: its get_params has been replaced by safe_get_params
NoEst == [steps |-> FALSE, missing |-> FALSE, wrapped |-> FALSE]

Artifacts ==
    {[steps |-> FALSE, missing |-> FALSE, wrapped |-> FALSE],
     [steps |-> TRUE, missing |-> TRUE, wrapped |-> FALSE]}

PredValues == {25 * k : k \in 0..MaxPredEighths}

NoCall == [raises |-> FALSE, value |-> 0]

\* what one call of model.predict does: raise, or return value; whether the
\* library reads get_params on the way is the library's choice
Outcomes(e) ==
    LET calls == IF e.wrapped /\ e.missing THEN BOOLEAN ELSE {FALSE} IN
    {[raises |-> TRUE, value |-> 0, getParams |-> g] : g \in calls}
    \cup {[raises |-> FALSE, value |-> v, getParams |-> g] : v \in PredValues, g \in calls}

\* safe_get_params sets the missing attributes on the step before delegating
safe_get_params(e) == [e EXCEPT !.missing = FALSE]

EstimatorAfterPredict(e, o) ==
    IF e.wrapped /\ o.getParams THEN safe_get_params(e) ELSE e

fix_xgboost_compatibility(pipeline) ==
    IF pipeline.steps THEN [pipeline EXCEPT !.wrapped = TRUE] ELSE pipeline

-----------------------------------------------------------------------------
(* Responses *)

NoPrice == -1

Resp(status, key, price, fields, text, extra) ==
    [status |-> status, key |-> key, price |-> price, fields |-> fields,
     text |-> text, extra |-> extra]

NoResp == Resp(0, "", NoPrice, {}, "", {})

Result(r, rws, prop, e) == [resp |-> r, rows |-> rws, propagated |-> prop, est |-> e]

\* FastAPI answers a body that fails the handler's pydantic model with 422 and
\* one error entry per offending field; the handler body does not run
RequestValidationError(errs, e) ==
    Result(Resp(422, "detail", NoPrice, errs, "validation error", {}), <<>>, FALSE, e)

\* an exception that leaves the handler reaches the server's error middleware:
\* plain 500, and the exception is re-raised to the server
UnhandledException(rws, e) ==
    Result(Resp(500, "", NoPrice, {}, "Internal Server Error", {}), rws, TRUE, e)

HTTPException(status, text, rws, e) ==
    Result(Resp(status, "detail", NoPrice, {}, text, {}), rws, FALSE, e)

NotFound(e) == Result(Resp(404, "detail", NoPrice, {}, "Not Found", {}), <<>>, FALSE, e)

\* the keys of the body a model or a dict lookup can read, when the model
\* accepts the namings in accepted
Accessible(p, accepted) ==
    {f \in Fields : f \notin p.missing /\ (f \notin Aliased \/ p.naming \in accepted)}

-----------------------------------------------------------------------------
(* Derived features and the result's rounding *)

\* the age without its floor at 0
AgeUnclamped(current_year, year) == current_year - year

Age(current_year, year) == Max(current_year - year, 0)

\* the quotient with the age itself as divisor
MileagePerYearUnguarded(mileage, age) == <<mileage, age>>

\* the quotient mileage / max(age, 1), kept as <<dividend, divisor>>
MileagePerYear(mileage, age) == <<mileage, Max(age, 1)>>

\* the flag with a strict comparison
VintageStrict(age) == IF age > VintageAge THEN 1 ELSE 0

Vintage(age) == IF age >= VintageAge THEN 1 ELSE 0

FeatureRow(manufacturer, model_name, fuel, engine, year, mileage, current_year) ==
    LET age == Age(current_year, year) IN
    [Manufacturer |-> manufacturer, Model |-> model_name, Fuel_type |-> fuel,
     Engine_size |-> engine, Year_of_manufacture |-> year, Mileage |-> mileage,
     age |-> age, mileage_per_year |-> MileagePerYear(mileage, age),
     vintage |-> Vintage(age)]

\* round(x, 2) on a price in 1/200 GBP: an even price is already a whole
\* number of pence; an odd one lies exactly between two and goes to the even
\* number of pence
Round2(x) == IF x % 2 = 0 THEN x ELSE IF (x + 1) % 4 = 0 THEN x + 1 ELSE x - 1

-----------------------------------------------------------------------------
(* Request models: the set of fields each rejects *)

\* Nima-Safara: aliases with populate_by_name, and range constraints
Nima_CarFeatures(p) ==
    LET have == Accessible(p, {"alias", "name"}) IN
    (Fields \ have)
    \cup {f \in have : \/ f = "Engine size" /\ ~(p.Engine_size > 0)
                       \/ f = "Year of manufacture" /\ ~(p.Year_of_manufacture >= MinYear)
                       \/ f = "Mileage" /\ ~(p.Mileage >= 0)}

\* brian-malone, jackiecwv, galyna-boiko: aliases only, no constraints
Brian_CarFeatures(p) == Fields \ Accessible(p, {"alias"})

Jackie_CarFeatures(p) == Fields \ Accessible(p, {"alias"})

Galyna_CarInput(p) == Fields \ Accessible(p, {"alias"})

\* patrick-githendu: attribute names only, no aliases, no constraints
Patrick_CarFeatures(p) == Fields \ Accessible(p, {"name"})

\* the handlers that take the body as a dict index it key by key, in this
\* order; the first absent key raises KeyError
DictKeyError(p) == Fields \ Accessible(p, {"alias"}) # {}

-----------------------------------------------------------------------------
(* POST /predict, one handler per submission                                *)
(* m: the Estimator reference, e: the Estimator object, cy: CURRENT_YEAR,   *)
(* p: the body, o: what model.predict does if it is called                  *)

\* the handler without its "model is None" test: None.predict raises
\* AttributeError inside the try block
Nima_predict_unguarded(m, e, cy, p, o) ==
    IF Nima_CarFeatures(p) # {} THEN RequestValidationError(Nima_CarFeatures(p), e)
    ELSE IF m = "unset" THEN HTTPException(500, "Prediction failed: str(e)", <<>>, e)
    ELSE LET row == FeatureRow(p.Manufacturer, p.Model, p.Fuel_type, p.Engine_size,
                               p.Year_of_manufacture, p.Mileage, cy)
             e2 == EstimatorAfterPredict(e, o)
         IN IF o.raises
            THEN HTTPException(500, "Prediction failed: str(e)", <<row>>, e2)
            ELSE Result(Resp(200, "predicted_price_gbp", Round2(o.value), {}, "", {}),
                        <<row>>, FALSE, e2)

\* the handler with its "model is None" test moved inside the try block: the
\* catch-all turns the 503 into a 500
Nima_predict_guard_in_try(m, e, cy, p, o) ==
    IF Nima_CarFeatures(p) # {} THEN RequestValidationError(Nima_CarFeatures(p), e)
    ELSE IF m = "unset"
    THEN HTTPException(500, "Prediction failed: 503: Model not loaded.", <<>>, e)
    ELSE LET row == FeatureRow(p.Manufacturer, p.Model, p.Fuel_type, p.Engine_size,
                               p.Year_of_manufacture, p.Mileage, cy)
             e2 == EstimatorAfterPredict(e, o)
         IN IF o.raises
            THEN HTTPException(500, "Prediction failed: str(e)", <<row>>, e2)
            ELSE Result(Resp(200, "predicted_price_gbp", Round2(o.value), {}, "", {}),
                        <<row>>, FALSE, e2)

Nima_predict_car_price(m, e, cy, p, o) ==
    IF Nima_CarFeatures(p) # {} THEN RequestValidationError(Nima_CarFeatures(p), e)
    ELSE IF m = "unset"
    THEN HTTPException(503, "Model not loaded. Please check server logs and try again later.",
                       <<>>, e)
    ELSE LET row == FeatureRow(p.Manufacturer, p.Model, p.Fuel_type, p.Engine_size,
                               p.Year_of_manufacture, p.Mileage, cy)
             e2 == EstimatorAfterPredict(e, o)
         IN IF o.raises
            THEN HTTPException(500, "Prediction failed: str(e)", <<row>>, e2)
            ELSE Result(Resp(200, "predicted_price_gbp", Round2(o.value), {}, "", {}),
                        <<row>>, FALSE, e2)

Brian_predict(m, e, p, o) ==
    IF Brian_CarFeatures(p) # {} THEN RequestValidationError(Brian_CarFeatures(p), e)
    ELSE IF m = "unset" THEN HTTPException(503, "Model not loaded", <<>>, e)
    ELSE LET row == FeatureRow(p.Manufacturer, p.Model, p.Fuel_type, p.Engine_size,
                               p.Year_of_manufacture, p.Mileage, HardcodedYear)
         IN IF o.raises
            THEN HTTPException(500, "str(e)", <<row>>, e)
            ELSE Result(Resp(200, "predicted_price_gbp", o.value, {}, "", {}),
                        <<row>>, FALSE, e)

Jackie_predict(e, p, o) ==
    IF Jackie_CarFeatures(p) # {} THEN RequestValidationError(Jackie_CarFeatures(p), e)
    ELSE LET row == FeatureRow(strip(p.Manufacturer), strip(p.Model), strip(p.Fuel_type),
                               p.Engine_size, p.Year_of_manufacture, p.Mileage,
                               HardcodedYear)
         IN IF o.raises
            THEN HTTPException(500, "str(e)", <<row>>, e)
            ELSE Result(Resp(200, "predicted_price_gbp", Round2(o.value), {}, "", {}),
                        <<row>>, FALSE, e)

Patrick_predict_car_price(e, p, o) ==
    IF Patrick_CarFeatures(p) # {} THEN RequestValidationError(Patrick_CarFeatures(p), e)
    ELSE LET row == FeatureRow(strip(p.Manufacturer), strip(p.Model), strip(p.Fuel_type),
                               p.Engine_size, p.Year_of_manufacture, p.Mileage,
                               HardcodedYear)
         IN IF o.raises
            THEN HTTPException(400, "str(e)", <<row>>, e)
            ELSE Result(Resp(200, "predicted_price_gbp", o.value, {}, "", {}),
                        <<row>>, FALSE, e)

GregMain_predict_car_price(e, p, o) ==
    IF DictKeyError(p) THEN UnhandledException(<<>>, e)
    ELSE LET row == FeatureRow(strip(p.Manufacturer), strip(p.Model), strip(p.Fuel_type),
                               p.Engine_size, p.Year_of_manufacture, p.Mileage,
                               HardcodedYear)
         IN IF o.raises
            THEN UnhandledException(<<row>>, e)
            ELSE Result(Resp(200, "predicted_price", Round2(o.value), {}, "", {}),
                        <<row>>, FALSE, e)

GregApp_predict_car_price(e, p, o) ==
    IF DictKeyError(p) THEN UnhandledException(<<>>, e)
    ELSE LET row == FeatureRow(strip(p.Manufacturer), strip(p.Model), strip(p.Fuel_type),
                               p.Engine_size, p.Year_of_manufacture, p.Mileage,
                               HardcodedYear)
         IN IF o.raises
            THEN UnhandledException(<<row>>, e)
            ELSE Result(Resp(200, "predicted_price_gbp", Round2(o.value), {}, "", {}),
                        <<row>>, FALSE, e)

Galyna_predict_car_price(e, p, o) ==
    IF Galyna_CarInput(p) # {} THEN RequestValidationError(Galyna_CarInput(p), e)
    ELSE LET row == FeatureRow(strip(p.Manufacturer), strip(p.Model), strip(p.Fuel_type),
                               p.Engine_size, p.Year_of_manufacture, p.Mileage,
                               HardcodedYear)
         IN IF o.raises
            THEN UnhandledException(<<row>>, e)
            ELSE Result(Resp(200, "predicted_price_gbp", o.value, {}, "", {}),
                        <<row>>, FALSE, e)

Gaddiel_predict_car_price(e, p, o) ==
    IF DictKeyError(p) THEN UnhandledException(<<>>, e)
    ELSE LET row == FeatureRow(strip(p.Manufacturer), strip(p.Model), strip(p.Fuel_type),
                               p.Engine_size, p.Year_of_manufacture, p.Mileage,
                               HardcodedYear)
         IN IF o.raises
            THEN UnhandledException(<<row>>, e)
            ELSE Result(Resp(200, "predicted_price", Round2(o.value), {}, "", {}),
                        <<row>>, FALSE, e)

\* the routing table with Nima-Safara's handler reading the clock on each
\* request instead of the CURRENT_YEAR sampled at import
PostPredictReadsClock(s, m, e, cy, p, o) ==
    CASE s = "Nima" -> Nima_predict_car_price(m, e, clock, p, o)
      [] s = "Brian" -> Brian_predict(m, e, p, o)
      [] s = "Jackie" -> Jackie_predict(e, p, o)
      [] s = "Patrick" -> Patrick_predict_car_price(e, p, o)
      [] s = "GregMain" -> GregMain_predict_car_price(e, p, o)
      [] s = "GregApp" -> GregApp_predict_car_price(e, p, o)
      [] s = "Galyna" -> Galyna_predict_car_price(e, p, o)
      [] s = "Gaddiel" -> Gaddiel_predict_car_price(e, p, o)

\* the application's routing table for POST /predict
PostPredict(s, m, e, cy, p, o) ==
    CASE s = "Nima" -> Nima_predict_car_price(m, e, cy, p, o)
      [] s = "Brian" -> Brian_predict(m, e, p, o)
      [] s = "Jackie" -> Jackie_predict(e, p, o)
      [] s = "Patrick" -> Patrick_predict_car_price(e, p, o)
      [] s = "GregMain" -> GregMain_predict_car_price(e, p, o)
      [] s = "GregApp" -> GregApp_predict_car_price(e, p, o)
      [] s = "Galyna" -> Galyna_predict_car_price(e, p, o)
      [] s = "Gaddiel" -> Gaddiel_predict_car_price(e, p, o)

-----------------------------------------------------------------------------
(* GET endpoints *)

health_check(s, m) ==
    CASE s = "Jackie" -> Resp(200, "status", NoPrice, {}, "ok", {})
      [] s = "Brian" -> Resp(200, "status", NoPrice, {}, "healthy", {"model_loaded"})
      [] OTHER -> Resp(200, "status", NoPrice, {}, "healthy", {})

\* only Nima-Safara serves /ready and /features
readiness_check(s, m) ==
    IF s = "Nima"
    THEN Resp(200, "model_loaded", NoPrice, {}, IF m # "unset" THEN "true" ELSE "false", {})
    ELSE NotFound(NoEst).resp

get_available_features(s, m, e) ==
    IF s = "Nima"
    THEN Resp(200, "Manufacturer", NoPrice, {},
              IF m # "unset" /\ e.steps THEN "model categories" ELSE "defaults", {})
    ELSE NotFound(NoEst).resp

-----------------------------------------------------------------------------
(* The process *)

ClockYears == (HardcodedYear - ClockSkew) .. (HardcodedYear + ClockSkew)

\* the module has been imported up to its load: Nima-Safara has sampled
\* CURRENT_YEAR from the clock, the others use the literal in their handler
\* and never read the clock (their calendar starts at the literal's year)
Init ==
    /\ sub \in Submissions
    /\ phase = "boot"
    /\ model = "unset"
    /\ est = NoEst
    /\ currentYear \in (IF sub = "Nima" THEN ClockYears ELSE {HardcodedYear})
    /\ clock = currentYear
    /\ handledIn = clock
    /\ loadFailed = FALSE
    /\ reqKind = "none"
    /\ req = BasePayload
    /\ resp = NoResp
    /\ rows = <<>>
    /\ call = NoCall
    /\ propagated = FALSE

\* model = joblib.load(...) at module level: a failure is an import error and
\* the server never starts
ImportLoad ==
    /\ phase = "boot"
    /\ sub \in ImportLoaders
    /\ \/ \E a \in Artifacts :
            /\ model' = "loaded"
            /\ est' = a
            /\ phase' = "serving"
            /\ UNCHANGED loadFailed
       \/ /\ loadFailed' = TRUE
          /\ phase' = "aborted"
          /\ UNCHANGED <<model, est>>
    /\ UNCHANGED <<sub, currentYear, clock, handledIn,
                   reqKind, req, resp, rows, call, propagated>>

\* brian-malone: the startup event re-raises, and the server exits on a failed
\* startup
load_model ==
    /\ phase = "boot"
    /\ sub = "Brian"
    /\ \/ \E a \in Artifacts :
            /\ model' = "loaded"
            /\ est' = a
            /\ phase' = "serving"
            /\ UNCHANGED loadFailed
       \/ /\ loadFailed' = TRUE
          /\ phase' = "aborted"
          /\ UNCHANGED <<model, est>>
    /\ UNCHANGED <<sub, currentYear, clock, handledIn,
                   reqKind, req, resp, rows, call, propagated>>

\* Nima-Safara: the lifespan swallows the failure and yields
lifespan ==
    /\ phase = "boot"
    /\ sub = "Nima"
    /\ \/ \E a \in Artifacts :
            /\ model' = "loaded"
            /\ est' = fix_xgboost_compatibility(a)
            /\ UNCHANGED loadFailed
       \/ /\ loadFailed' = TRUE
          /\ model' = "unset"
          /\ UNCHANGED est
    /\ phase' = "serving"
    /\ UNCHANGED <<sub, currentYear, clock, handledIn,
                   reqKind, req, resp, rows, call, propagated>>

\* everything POST /predict does but its effect on the Estimator reference
PredictEffects(p, o) ==
    \E r \in {PostPredict(sub, model, est, currentYear, p, o)} :
    /\ reqKind' = "predict"
    /\ req' = p
    /\ resp' = r.resp
    /\ rows' = r.rows
    /\ call' = (IF r.rows # <<>> THEN [raises |-> o.raises, value |-> o.value] ELSE NoCall)
    /\ propagated' = r.propagated
    /\ est' = r.est
    /\ handledIn' = clock
    /\ UNCHANGED <<sub, phase, currentYear, clock, loadFailed>>

PredictDropsModel ==
    /\ phase = "serving"
    /\ \E p \in Payloads : \E o \in Outcomes(est) :
          /\ PredictEffects(p, o)
          /\ model' = IF resp'.status = 500 THEN "unset" ELSE model

\* no handler declares the global: the reference is left as it is
Predict ==
    /\ phase = "serving"
    /\ \E p \in Payloads : \E o \in Outcomes(est) :
          /\ PredictEffects(p, o)
          /\ UNCHANGED model

Get(kind, r) ==
    /\ phase = "serving"
    /\ reqKind' = kind
    /\ req' = BasePayload
    /\ resp' = r
    /\ rows' = <<>>
    /\ call' = NoCall
    /\ propagated' = FALSE
    /\ handledIn' = clock
    /\ UNCHANGED <<sub, phase, model, est, currentYear, clock, loadFailed>>

Health == Get("health", health_check(sub, model))

Ready == Get("ready", readiness_check(sub, model))

Features == Get("features", get_available_features(sub, model, est))

Next == ImportLoad \/ load_model \/ lifespan \/ Predict \/ Health \/ Ready \/ Features

Spec == Init /\ [][Next]_vars

(* The process that samples the clock, with the calendar moving under it *)

\* a new year begins; nothing in the process runs
Tick ==
    /\ clock < currentYear + MaxTicks
    /\ clock' = clock + 1
    /\ UNCHANGED <<sub, phase, model, est, currentYear, handledIn, loadFailed,
                   reqKind, req, resp, rows, call, propagated>>

\* Nima-Safara's module imported in the year the other submissions hardcode
InitNima == Init /\ sub = "Nima" /\ currentYear = HardcodedYear

NextNima == lifespan \/ Predict \/ Health \/ Ready \/ Features \/ Tick

ClockSpec == InitNima /\ [][NextNima]_vars

-----------------------------------------------------------------------------
TypeOK ==
    /\ sub \in Submissions
    /\ phase \in {"boot", "serving", "aborted"}
    /\ model \in {"unset", "loaded"}
    /\ req \in Payloads
    /\ Len(rows) <= 1

-----------------------------------------------------------------------------
(* Properties *)

PredictHandled == phase = "serving" /\ reqKind = "predict"

\* a body with all six fields, each within the documented range
WellFormed(p) ==
    /\ p.missing = {}
    /\ p.Engine_size > 0
    /\ p.Year_of_manufacture >= MinYear
    /\ p.Mileage >= 0

\* C1 as stated: while the Estimator reference is unset, every POST /predict,
\* whatever its payload, ends 503 and does not call the Estimator.
C1_NotReadyForAnyPayload ==
    (PredictHandled /\ model = "unset") => (resp.status = 503 /\ rows = <<>>)

\* C1 amended: while the Estimator reference is unset, no POST /predict calls
\* the Estimator; a request whose body passes the request model ends 503, and
\* one whose body fails it ends 422 naming the offending fields.
C1_NotReadyAfterValidation ==
    (PredictHandled /\ model = "unset") =>
        /\ rows = <<>>
        /\ WellFormed(req) => resp.status = 503
        /\ ~WellFormed(req) => (resp.status = 422 /\ resp.fields # {})

C1_Witness ==
    PredictHandled /\ model = "unset" /\ loadFailed /\ resp.status = 503 /\ rows = <<>>

\* C2: when the loaded Estimator's predict raises, the request ends 500 with
\* the underlying message, nothing escapes the handler, and the service is
\* still Ready.
C2_PredictionFailedIs500 ==
    (PredictHandled /\ rows # <<>> /\ call.raises) =>
        /\ resp.status = 500
        /\ resp.text \in {"str(e)", "Prediction failed: str(e)"}
        /\ ~propagated
        /\ model = "loaded"

\* C3: a failed load at startup does not abort the process; the reference
\* stays unset and the service serves in NotReady.
C3_LoadFailureKeepsServing ==
    loadFailed => (phase = "serving" /\ model = "unset")

\* C4: the Estimator reference changes only in the one startup step, from
\* unset to set; startup is never re-entered, so after it the reference keeps
\* its value, set or unset.
C4_ReadinessChangesOnce ==
    [][/\ (model' # model) => (phase = "boot" /\ phase' # "boot" /\ model = "unset")
       /\ (phase # "boot") => (phase' # "boot")]_vars

C4_Witness ==
    PredictHandled /\ model = "loaded" /\ rows # <<>> /\ call.raises

\* C5: no request handler writes the Estimator reference or changes the
\* Estimator object.
C5_HandlersLeaveEstimator ==
    [][(phase = "serving") => (model' = model /\ est' = est)]_vars

\* C6: a POST /predict without a required field ends 400 or 422, names the
\* field, and does not call the Estimator, in every submission.
C6_MissingFieldNamed ==
    (PredictHandled /\ req.missing # {}) =>
        /\ resp.status \in {400, 422}
        /\ req.missing \subseteq resp.fields
        /\ rows = <<>>

\* C7: a POST /predict with Engine size <= 0, Year of manufacture < 1980 or
\* Mileage < 0 ends 400 or 422 before any derivation or Estimator call.
C7_OutOfRangeRejected ==
    (/\ PredictHandled
     /\ req.missing = {}
     /\ \/ req.Engine_size <= 0
        \/ req.Year_of_manufacture < MinYear
        \/ req.Mileage < 0) =>
        (resp.status \in {400, 422} /\ rows = <<>>)

\* C8: GET /health answers 200 with exactly {"status": "healthy"} in every
\* state.
C8_HealthyAlways ==
    (phase = "serving" /\ reqKind = "health") =>
        resp = Resp(200, "status", NoPrice, {}, "healthy", {})

\* C9: every 200 of POST /predict is {"predicted_price_gbp": p}, p the
\* Estimator's result rounded to 2 decimals (a whole number of pence, the
\* nearest to the result).
C9_RoundedPrice ==
    (PredictHandled /\ resp.status = 200) =>
        /\ resp.key = "predicted_price_gbp"
        /\ resp.price % 2 = 0
        /\ resp.price - call.value \in {-1, 0, 1}

\* C10: the age in every row passed to the Estimator is
\* max(current_year - year_of_manufacture, 0), hence never negative, however
\* far the year of manufacture lies after the current year.
C10_AgeNeverNegative ==
    (PredictHandled /\ rows # <<>>) =>
        LET row == rows[1]
            d == currentYear - req.Year_of_manufacture
        IN /\ row.Year_of_manufacture = req.Year_of_manufacture
           /\ row.age = (IF d > 0 THEN d ELSE 0)
           /\ row.age >= 0

C10_Witness ==
    /\ PredictHandled
    /\ rows # <<>>
    /\ req.Year_of_manufacture > currentYear + 1
    /\ rows[1].age = 0

\* C11: the divisor of mileage_per_year is max(age, 1), at least 1 in every
\* row, so nothing divides by zero; at age 0 the quotient is the submitted
\* Mileage (divided by 1).
C11_DivisorAtLeastOne ==
    (PredictHandled /\ rows # <<>>) =>
        LET row == rows[1] IN
        /\ row.mileage_per_year[1] = req.Mileage
        /\ row.mileage_per_year[2] = (IF row.age > 1 THEN row.age ELSE 1)
        /\ row.mileage_per_year[2] >= 1
        /\ (row.age = 0) => (row.mileage_per_year = <<req.Mileage, 1>>)

C11_Witness ==
    /\ PredictHandled
    /\ rows # <<>>
    /\ req.Year_of_manufacture >= currentYear
    /\ rows[1].age = 0
    /\ rows[1].mileage_per_year = <<req.Mileage, 1>>

\* C12: the vintage flag is 1 exactly when the age is 20 or more and 0
\* otherwise (19 gives 0, 20 gives 1); it is never anything but 0 or 1.
C12_VintageFromTwenty ==
    (PredictHandled /\ rows # <<>>) =>
        LET row == rows[1] IN
        /\ row.vintage \in {0, 1}
        /\ (row.vintage = 1) <=> (row.age >= 20)

C12_Witness ==
    PredictHandled /\ rows # <<>> /\ rows[1].age = 20 /\ rows[1].vintage = 1

\* a text without leading or trailing whitespace
Trimmed(t) == t = <<>> \/ (t[1] # " " /\ t[Len(t)] # " ")

\* C13: in every submission the Manufacturer, Model and Fuel type of the row
\* passed to the Estimator are the request's values without their surrounding
\* whitespace.
C13_TextFieldsTrimmed ==
    (PredictHandled /\ rows # <<>>) =>
        LET row == rows[1] IN
        /\ Trimmed(row.Manufacturer) /\ row.Manufacturer = strip(req.Manufacturer)
        /\ Trimmed(row.Model) /\ row.Model = strip(req.Model)
        /\ Trimmed(row.Fuel_type) /\ row.Fuel_type = strip(req.Fuel_type)

\* C14: in the submission that reads the system clock, CURRENT_YEAR is
\* sampled once at import and never changes; a request repeated with the same
\* payload in the same process gets the same age, mileage_per_year and
\* vintage, also when a new calendar year began in between.
C14_YearSampledAtImport ==
    [][/\ currentYear' = currentYear
       /\ (/\ reqKind = "predict" /\ reqKind' = "predict"
           /\ req' = req
           /\ rows # <<>> /\ rows' # <<>>) =>
              /\ rows'[1].age = rows[1].age
              /\ rows'[1].mileage_per_year = rows[1].mileage_per_year
              /\ rows'[1].vintage = rows[1].vintage]_vars

\* a request handled after the calendar moved past the sampled year, its age
\* still counted from the sampled year
C14_Witness ==
    /\ sub = "Nima"
    /\ PredictHandled
    /\ rows # <<>>
    /\ handledIn > currentYear
    /\ req.Year_of_manufacture < currentYear
    /\ rows[1].age = currentYear - req.Year_of_manufacture

\* the submissions whose handler tests the Estimator reference
ReadinessCheckers == {"Nima", "Brian"}

\* C15: in the handlers that test for an unset Estimator, the 'not ready'
\* error is raised outside the catch-all block, so a request that arrives
\* while the Estimator is unset is never answered 500; a 500 comes only from
\* a state where the Estimator is set.
C15_NotReadyIsNeverFailed ==
    (PredictHandled /\ sub \in ReadinessCheckers) =>
        /\ (model = "unset") => (resp.status # 500 /\ ~propagated)
        /\ (resp.status = 500) => (model = "loaded")

C15_Witness ==
    /\ PredictHandled
    /\ sub \in ReadinessCheckers
    /\ model = "unset"
    /\ req.naming = "name"
    /\ WellFormed(req)
    /\ resp = Resp(503, "detail", NoPrice, {},
                   "Model not loaded. Please check server logs and try again later.", {})

====
